---- MODULE Spec2Model ----
(***************************************************************************)
(* Model of plugins.v2/mediaserverrefreshjuly/__init__.py: the plugin      *)
(* MediaServerRefreshJuly, whose handler refresh() reacts to a             *)
(* TransferComplete event, optionally coalesces refreshes of one target    *)
(* path through a lock file holding a timestamp, sleeps the configured     *)
(* delay and then calls a refresh method on every active media server.     *)
(*                                                                         *)
(* Every invocation of refresh() is a thread of its own; its position is   *)
(* inv[i].pc.  The shared state is the plugin's fields (_enabled, _delay,  *)
(* _mediaservers), the lock files and the media servers' liveness.  Time   *)
(* is a discrete clock that may advance between any two steps.             *)
(*                                                                         *)
(* A step of a handler is a stretch of code with one access to the shared  *)
(* state: the gates of lines 176-193 (Begin), the read of the lock file    *)
(* (CheckLock), its creation and truncation (TouchLock), its write         *)
(* (WriteLock), the start and the end of time.sleep (StartSleep, Wake),    *)
(* the resolution of the services (Build) and one call of a service        *)
(* (Dispatch).  open("w") truncates the file and the text reaches it when  *)
(* the with block closes it, so a reader in between finds it empty.        *)
(*                                                                         *)
(* Spec is one handler in an environment that reconfigures the plugin,     *)
(* connects and disconnects servers, fails file operations and service     *)
(* calls and delivers any payload.  SpecConc is NumInv concurrent handlers *)
(* under one fixed configuration.  SpecLive is concurrent handlers for one *)
(* path whose threads and clock are scheduled fairly, and SpecSerial is a  *)
(* host that calls the handlers one at a time.                             *)
(***************************************************************************)
EXTENDS Integers, Sequences, FiniteSets, TLC

\* ---------------------------------------------------------------- bounds
NumInv == 2          \* invocations of refresh() in one run
MaxTime == 3         \* the clock stops advancing here
MaxDelay == 2        \* the positive delay a configuration may carry

Invs == 1..NumInv
Times == 0..MaxTime

\* ------------------------------------------------------- the environment
\* names the registry (MediaServerHelper) knows, in the order of its dict
ServiceOrder == <<"emby", "jellyfin">>
Registry == {ServiceOrder[k] : k \in 1..Len(ServiceOrder)}
\* names a configuration may select: the registered ones and an unknown one
Names == Registry \cup {"ghost"}
\* what hasattr() finds on a service instance
Caps == {"items", "both", "root", "none"}
\* the registered instances' refresh methods, one assignment per run
CapChoices == {[s \in Registry |-> IF s = "emby" THEN "both" ELSE "root"],
               [s \in Registry |-> IF s = "emby" THEN "items" ELSE "none"],
               [s \in Registry |-> IF s = "emby" THEN "none" ELSE "items"]}
\* target paths of the events (distinct sha1 hashes)
Paths == {"p", "q"}

\* a delay value of the configuration surface: a number or a numeric string
Num(n) == [form |-> "num", val |-> n]
Str(n) == [form |-> "str", val |-> n]
DelayValues == {Num(0), Str(0), Num(MaxDelay)}
\* Python truthiness of a delay value: 0 is falsy, every non-empty string
\* (also "0") is truthy
Truthy(d) == d.form = "str" \/ d.val # 0
\* float(self._delay)
Float(d) == d.val

\* the configurations init_plugin may be given: the usual one (enabled, a
\* positive delay, both registered servers) and its variations in one field
Usual == [enabled |-> TRUE, delay |-> Num(MaxDelay), mediaservers |-> {"emby", "jellyfin"}]
MediaServerChoices == {{}, {"emby", "jellyfin"}, {"jellyfin", "ghost"}, {"ghost"}}
Configs == {[Usual EXCEPT !.enabled = e] : e \in BOOLEAN}
           \cup {[Usual EXCEPT !.delay = d] : d \in DelayValues}
           \cup {[Usual EXCEPT !.mediaservers = m] : m \in MediaServerChoices}

\* the payload of an event: event_data empty, or a mapping whose
\* transferinfo is missing, has no target_diritem, has an empty path, or
\* has the path "p"; mediainfo present or not
TransferInfos == {"none", "nodiritem", "emptypath"} \cup Paths
Events == {[data |-> FALSE, ti |-> "none", mi |-> FALSE]}
          \cup [data : {TRUE}, ti : TransferInfos \ {"q"}, mi : BOOLEAN]

\* ------------------------------------------------------ lock file contents
Absent == [k |-> "absent", v |-> 0, w |-> 0]
Empty == [k |-> "empty", v |-> 0, w |-> 0]
Corrupt == [k |-> "corrupt", v |-> 0, w |-> 0]
\* str(run_time) as written by invocation w (w is history, not file content)
StrOfTime(t, w) == [k |-> "ts", v |-> t, w |-> w]
\* float(content): the timestamp, defined on "ts" content only
FloatOfContent(c) == c.v

VARIABLES
  now,            \* time.time()
  _enabled,       \* self._enabled
  _delay,         \* self._delay
  _mediaservers,  \* self._mediaservers
  inactive,       \* service_info.instance.is_inactive() of each registered service
  caps,           \* the refresh methods each registered service instance has
  lock,           \* the lock file of each target path
  inv             \* the invocations of refresh()

vars == <<now, _enabled, _delay, _mediaservers, inactive, caps, lock, inv>>

NoEvent == [data |-> FALSE, ti |-> "none", mi |-> FALSE]

\* An invocation: its position pc, its event ev, its locals (seenDelay:
\* self._delay as read at lines 192-193; run_time, between lines 215 and
\* 218; sleepEnd, while it sleeps; todo, the services still to call) and
\* its history: whether line 176 saw the plugin enabled, the services the
\* gate of line 184 resolved, when it reached
\* the lock step (arrive), the lock content it returned on (aborted),
\* whether the except clause of line 220 ran (failed), the time at which
\* the delay has elapsed since its write of the lock (due), the argument of
\* time.sleep (sleepFor), the services resolved at line 237, the calls
\* each of them received, and the error it raised.
IdleInv == [pc |-> "idle", ev |-> NoEvent, sawEnabled |-> FALSE, gate |-> {},
            arrive |-> -1,
            seenDelay |-> Num(0),
            aborted |-> Absent, failed |-> FALSE,
            run_time |-> -1, due |-> -1,
            sleepEnd |-> -1, sleepFor |-> -1,
            resolved |-> {}, todo |-> <<>>,
            items |-> [s \in Registry |-> 0], root |-> [s \in Registry |-> 0],
            err |-> "no"]

\* what the lock directory may hold for path "p" when the host starts:
\* nothing, or a file left by an earlier run of the host (writer 0): empty,
\* corrupt, or a timestamp that is in the future until the clock reaches 1
LeftOver == {Absent, Empty, Corrupt, StrOfTime(1, 0)}

\* the state after construction: the class attributes of lines 37-40
Init ==
  /\ now = 0
  /\ _enabled = FALSE
  /\ _delay = Num(0)
  /\ _mediaservers = {}
  /\ inactive = [s \in Registry |-> FALSE]
  /\ caps \in CapChoices
  /\ \E c \in LeftOver : lock = [p \in Paths |-> IF p = "p" THEN c ELSE Absent]
  /\ inv = [i \in Invs |-> IdleInv]

\* the state after construction and init_plugin(Usual), with servers that
\* have both refresh methods (emby) and the whole-library one (jellyfin)
InitConc ==
  /\ now = 0
  /\ _enabled = Usual.enabled
  /\ _delay = Usual.delay
  /\ _mediaservers = Usual.mediaservers
  /\ inactive = [s \in Registry |-> FALSE]
  /\ caps = [s \in Registry |-> IF s = "emby" THEN "both" ELSE "root"]
  /\ \E c \in {Absent, StrOfTime(1, 0)} : lock = [p \in Paths |-> IF p = "p" THEN c ELSE Absent]
  /\ inv = [i \in Invs |-> IdleInv]

\* --------------------------------------------------------- service_infos
\* MediaServerHelper.get_services(name_filters): the registered services
\* among the names
get_services(names) == Registry \cap names

None == [none |-> TRUE, services |-> {}]
Some(S) == [none |-> FALSE, services |-> S]

\* service_infos without the is_inactive() test of line 66
service_infos_unfiltered ==
  IF _mediaservers = {} THEN None
  ELSE LET services == get_services(_mediaservers)
       IN IF services = {} THEN None
          ELSE Some(services)

\* the property service_infos: None, or the non-empty set of the active
\* services among the configured ones
service_infos ==
  IF _mediaservers = {} THEN None
  ELSE LET services == get_services(_mediaservers)
           active_services == {s \in services : ~inactive[s]}
       IN IF services = {} THEN None
          ELSE IF active_services = {} THEN None
          ELSE Some(active_services)

\* the services of a set in the iteration order of the registry's dict
RECURSIVE InOrder(_, _)
InOrder(S, k) ==
  IF k > Len(ServiceOrder) THEN <<>>
  ELSE IF ServiceOrder[k] \in S THEN <<ServiceOrder[k]>> \o InOrder(S, k + 1)
  ELSE InOrder(S, k + 1)

\* ------------------------------------------------------------ init_plugin
\* init_plugin(config) with a non-empty config replaces the three fields
\* (a call with no config changes nothing and is a stuttering step)
\* (config.get("delay") or 0 and config.get("mediaservers") or [] are the
\* values of Configs themselves: Num(0) and {} stand for the falsy ones)
init_plugin(config) ==
  /\ _enabled' = config.enabled
  /\ _delay' = config.delay
  /\ _mediaservers' = config.mediaservers
  /\ UNCHANGED <<now, inactive, caps, lock, inv>>

\* ---------------------------------------------------------- environment
\* the clock advances
Tick ==
  /\ now < MaxTime
  /\ now' = now + 1
  /\ UNCHANGED <<_enabled, _delay, _mediaservers, inactive, caps, lock, inv>>

\* a media server connects or disconnects
SetInactive(s) ==
  /\ inactive' = [inactive EXCEPT ![s] = ~@]
  /\ UNCHANGED <<now, _enabled, _delay, _mediaservers, caps, lock, inv>>

\* ---------------------------------------------------------------- refresh
Shared == <<now, _enabled, _delay, _mediaservers, inactive, caps>>

\* lines 176-193: the gates of the handler and the branch on self._delay
\* Gate without the test of line 176
GateNoEnabled(ev) ==
  IF ~ev.data THEN "return"
  ELSE IF service_infos.none THEN "return"
  ELSE IF ev.ti \notin Paths THEN "return"
  ELSE IF Truthy(_delay) THEN "check"
  ELSE "build"

\* Gate without the test of line 189
GateNoPath(ev) ==
  IF ~_enabled THEN "return"
  ELSE IF ~ev.data THEN "return"
  ELSE IF service_infos.none THEN "return"
  ELSE IF Truthy(_delay) THEN "check"
  ELSE "build"

Gate(ev) ==
  IF ~_enabled THEN "return"
  ELSE IF ~ev.data THEN "return"
  ELSE IF service_infos.none THEN "return"
  ELSE IF ev.ti \notin Paths THEN "return"
  ELSE IF Truthy(_delay) THEN "check"
  ELSE "build"

\* invocations are numbered in the order in which they begin
Begin(i, ev) ==
  /\ inv[i].pc = "idle"
  /\ i > 1 => inv[i - 1].pc # "idle"
  /\ inv' = [inv EXCEPT ![i] =
       IF Gate(ev) = "return"
         THEN [@ EXCEPT !.pc = "return", !.ev = ev, !.sawEnabled = _enabled]
         ELSE [@ EXCEPT !.pc = Gate(ev), !.ev = ev, !.sawEnabled = _enabled,
                        !.gate = service_infos.services,
                        !.arrive = IF Truthy(_delay) THEN now ELSE -1,
                        !.seenDelay = _delay]]
  /\ UNCHANGED <<Shared, lock>>

\* FutureLock with <= for the < of line 208
FutureLockInclusive(c) == c.k = "ts" /\ now <= FloatOfContent(c)

\* line 208: an existing, non-empty, parsable lock is still in the future
FutureLock(c) == c.k = "ts" /\ now < FloatOfContent(c)

\* CheckLock without the return of line 211
CheckLockNoReturn(i, ioerr) ==
  /\ inv[i].pc = "check"
  /\ LET c == lock[inv[i].ev.ti]
     IN inv' = [inv EXCEPT ![i] =
          IF ioerr \/ c.k = "corrupt"
            THEN [@ EXCEPT !.pc = "sleep", !.failed = TRUE]
          ELSE [@ EXCEPT !.pc = "touch"]]
  /\ UNCHANGED <<Shared, lock>>

\* lines 203-211: read the lock file; return when its time is in the future.
\* ioerr: exists(), open() or read() raised; a corrupt content makes
\* float() raise.  Either way the except clause of line 220 is entered.
CheckLock(i, ioerr) ==
  /\ inv[i].pc = "check"
  /\ LET c == lock[inv[i].ev.ti]
     IN inv' = [inv EXCEPT ![i] =
          IF ioerr \/ c.k = "corrupt"
            THEN [@ EXCEPT !.pc = "sleep", !.failed = TRUE]
          ELSE IF FutureLock(c)
            THEN [@ EXCEPT !.pc = "return", !.aborted = c]
          ELSE [@ EXCEPT !.pc = "touch"]]
  /\ UNCHANGED <<Shared, lock>>

\* TouchLock with a run_time later than time.time() + delay
TouchLockLate(i, ioerr) ==
  /\ inv[i].pc = "touch"
  /\ IF ioerr
       THEN /\ inv' = [inv EXCEPT ![i] = [@ EXCEPT !.pc = "sleep", !.failed = TRUE]]
            /\ UNCHANGED lock
       ELSE /\ inv' = [inv EXCEPT ![i] = [@ EXCEPT !.pc = "write",
                                                   !.run_time = now + Float(inv[i].seenDelay) + 1]]
            /\ lock' = [lock EXCEPT ![inv[i].ev.ti] = Empty]
  /\ UNCHANGED Shared

\* TouchLock with one lock file for all paths
TouchLockAnyPath(i, ioerr) ==
  /\ inv[i].pc = "touch"
  /\ IF ioerr
       THEN /\ inv' = [inv EXCEPT ![i] = [@ EXCEPT !.pc = "sleep", !.failed = TRUE]]
            /\ UNCHANGED lock
       ELSE /\ inv' = [inv EXCEPT ![i] = [@ EXCEPT !.pc = "write",
                                                   !.run_time = now + Float(inv[i].seenDelay)]]
            /\ lock' = [p \in Paths |-> Empty]
  /\ UNCHANGED Shared

\* lines 213-217: mkdir, touch, run_time = time.time() + delay, and
\* open("w"), which truncates the file.  ioerr: mkdir or touch raised,
\* nothing was changed.
TouchLock(i, ioerr) ==
  /\ inv[i].pc = "touch"
  /\ IF ioerr
       THEN /\ inv' = [inv EXCEPT ![i] = [@ EXCEPT !.pc = "sleep", !.failed = TRUE]]
            /\ UNCHANGED lock
       ELSE /\ inv' = [inv EXCEPT ![i] = [@ EXCEPT !.pc = "write",
                                                   !.run_time = now + Float(inv[i].seenDelay)]]
            /\ lock' = [lock EXCEPT ![inv[i].ev.ti] = Empty]
  /\ UNCHANGED Shared

\* WriteLock outside the try block: a failed write ends the handler
WriteLockRaise(i, ioerr) ==
  /\ inv[i].pc = "write"
  /\ IF ioerr
       THEN /\ inv' = [inv EXCEPT ![i] = [@ EXCEPT !.pc = "raised", !.failed = TRUE,
                                                   !.run_time = -1, !.err = "lock"]]
            /\ UNCHANGED lock
       ELSE /\ inv' = [inv EXCEPT ![i] = [@ EXCEPT !.pc = "sleep", !.run_time = -1,
                                               !.due = now + Float(inv[i].seenDelay)]]
            /\ lock' = [lock EXCEPT ![inv[i].ev.ti] = StrOfTime(inv[i].run_time, i)]
  /\ UNCHANGED Shared

\* lines 218-219: f.write(str(run_time)) and the close of the with block.
\* ioerr: the write raised, the file stays truncated.
WriteLock(i, ioerr) ==
  /\ inv[i].pc = "write"
  /\ IF ioerr
       THEN /\ inv' = [inv EXCEPT ![i] = [@ EXCEPT !.pc = "sleep", !.failed = TRUE,
                                                   !.run_time = -1]]
            /\ UNCHANGED lock
       ELSE /\ inv' = [inv EXCEPT ![i] = [@ EXCEPT !.pc = "sleep", !.run_time = -1,
                                               !.due = now + Float(inv[i].seenDelay)]]
            /\ lock' = [lock EXCEPT ![inv[i].ev.ti] = StrOfTime(inv[i].run_time, i)]
  /\ UNCHANGED Shared

\* StartSleep with a sleep of no length
StartSleepShort(i) ==
  /\ inv[i].pc = "sleep"
  /\ inv' = [inv EXCEPT ![i] = [@ EXCEPT !.pc = "sleeping",
                                         !.sleepEnd = now,
                                         !.sleepFor = Float(_delay)]]
  /\ UNCHANGED <<Shared, lock>>

\* lines 223-224: time.sleep(float(self._delay)) begins
StartSleep(i) ==
  /\ inv[i].pc = "sleep"
  /\ inv' = [inv EXCEPT ![i] = [@ EXCEPT !.pc = "sleeping",
                                         !.sleepEnd = now + Float(_delay),
                                         !.sleepFor = Float(_delay)]]
  /\ UNCHANGED <<Shared, lock>>

\* Wake before the time has passed
WakeAtOnce(i) ==
  /\ inv[i].pc = "sleeping"
  /\ inv' = [inv EXCEPT ![i] = [@ EXCEPT !.pc = "build", !.sleepEnd = -1]]
  /\ UNCHANGED <<Shared, lock>>

\* line 224: time.sleep returns once the time has passed
Wake(i) ==
  /\ inv[i].pc = "sleeping"
  /\ now >= inv[i].sleepEnd
  /\ inv' = [inv EXCEPT ![i] = [@ EXCEPT !.pc = "build", !.sleepEnd = -1]]
  /\ UNCHANGED <<Shared, lock>>

\* Build with the services the gate of line 184 resolved, not resolved anew
BuildFromGate(i) ==
  /\ inv[i].pc = "build"
  /\ inv' = [inv EXCEPT ![i] =
       IF ~inv[i].ev.mi THEN [@ EXCEPT !.pc = "raised", !.err = "mediainfo"]
       ELSE [@ EXCEPT !.pc = "loop", !.resolved = inv[i].gate,
                      !.todo = InOrder(inv[i].gate, 1)]]
  /\ UNCHANGED <<Shared, lock>>

\* lines 226-237: build the item list (mediainfo.title raises AttributeError
\* when mediainfo is None) and evaluate self.service_infos.items() (raises
\* AttributeError when service_infos is None)
Build(i) ==
  /\ inv[i].pc = "build"
  /\ inv' = [inv EXCEPT ![i] =
       IF ~inv[i].ev.mi THEN [@ EXCEPT !.pc = "raised", !.err = "mediainfo"]
       ELSE IF service_infos.none THEN [@ EXCEPT !.pc = "raised", !.err = "service_infos"]
       ELSE [@ EXCEPT !.pc = "loop", !.resolved = service_infos.services,
                      !.todo = InOrder(service_infos.services, 1)]]
  /\ UNCHANGED <<Shared, lock>>

\* CallFor with the two hasattr tests in the other order
CallForRootFirst(cap) ==
  IF cap \in {"root", "both"} THEN "root"
  ELSE IF cap = "items" THEN "items"
  ELSE "none"

\* lines 238-244: the refresh method chosen for a service instance by hasattr
CallFor(cap) ==
  IF cap \in {"items", "both"} THEN "items"
  ELSE IF cap = "root" THEN "root"
  ELSE "none"

\* lines 237-244: one iteration of the loop over the resolved services.
\* raises: the service's refresh method raised; nothing catches it.
Dispatch(i, raises) ==
  /\ inv[i].pc = "loop"
  /\ LET s == Head(inv[i].todo)
         call == CallFor(caps[s])
         rest == Tail(inv[i].todo)
     IN /\ raises => call # "none"
        /\ inv' = [inv EXCEPT ![i] =
             [@ EXCEPT !.items[s] = @ + (IF call = "items" THEN 1 ELSE 0),
                       !.root[s] = @ + (IF call = "root" THEN 1 ELSE 0),
                       !.todo = rest,
                       !.err = IF raises THEN "service" ELSE @,
                       !.pc = IF raises THEN "raised"
                              ELSE IF rest = <<>> THEN "return" ELSE "loop"]]
  /\ UNCHANGED <<Shared, lock>>

\* One handler at a time, in an environment that reconfigures the plugin,
\* connects and disconnects the servers and delivers any payload.
Next ==
  \/ \E config \in Configs : init_plugin(config)
  \/ Tick
  \/ \E s \in Registry : SetInactive(s)
  \/ \E ev \in Events : Begin(1, ev)
  \/ \E ioerr \in BOOLEAN : CheckLock(1, ioerr)
  \/ \E ioerr \in BOOLEAN : TouchLock(1, ioerr)
  \/ \E ioerr \in BOOLEAN : WriteLock(1, ioerr)
  \/ StartSleep(1)
  \/ Wake(1)
  \/ Build(1)
  \/ \E raises \in BOOLEAN : Dispatch(1, raises)

Spec == Init /\ [][Next]_vars

\* Concurrent handlers for well-formed events on either path, under the
\* usual configuration, with a file system and servers that do not fail.
ConcEvents == [data : {TRUE}, ti : Paths, mi : {TRUE}]

NextConc ==
  \/ Tick
  \/ \E i \in Invs, ev \in ConcEvents : Begin(i, ev)
  \/ \E i \in Invs : CheckLock(i, FALSE)
  \/ \E i \in Invs : TouchLock(i, FALSE)
  \/ \E i \in Invs : WriteLock(i, FALSE)
  \/ \E i \in Invs : StartSleep(i)
  \/ \E i \in Invs : Wake(i)
  \/ \E i \in Invs : Build(i)
  \/ \E i \in Invs : Dispatch(i, FALSE)

SpecConc == InitConc /\ [][NextConc]_vars

\* ------------------------------------------------- scheduled handlers
\* the clock advances as long as a handler sleeps (time.sleep returns)
Elapse ==
  /\ now < MaxTime \/ \E i \in Invs : inv[i].pc = "sleeping" /\ now < inv[i].sleepEnd
  /\ now' = now + 1
  /\ UNCHANGED <<_enabled, _delay, _mediaservers, inactive, caps, lock, inv>>

\* the next step of the thread that runs invocation i, once it has begun
Handler(i) ==
  \/ CheckLock(i, FALSE)
  \/ TouchLock(i, FALSE)
  \/ WriteLock(i, FALSE)
  \/ StartSleep(i)
  \/ Wake(i)
  \/ Build(i)
  \/ Dispatch(i, FALSE)

\* the clock never stops and every thread that can take a step is scheduled
Fairness == WF_vars(Elapse) /\ \A i \in Invs : WF_vars(Handler(i))

\* Concurrent handlers for well-formed events on one path, scheduled
\* fairly, under the usual configuration, with no file left by an earlier
\* run of the host.
LiveEvents == [data : {TRUE}, ti : {"p"}, mi : {TRUE}]

InitLive == InitConc /\ lock["p"] = Absent

NextLive ==
  \/ Elapse
  \/ \E i \in Invs, ev \in LiveEvents : Begin(i, ev)
  \/ \E i \in Invs : Handler(i)

SpecLive == InitLive /\ [][NextLive]_vars /\ Fairness

\* A host that delivers the events one at a time: refresh() is called for
\* the next event when the call for the one before has ended.
BeginSerial(i, ev) ==
  /\ \A k \in Invs : inv[k].pc \in {"idle", "return", "raised"}
  /\ Begin(i, ev)

NextSerial ==
  \/ Elapse
  \/ \E i \in Invs, ev \in ConcEvents : BeginSerial(i, ev)
  \/ \E i \in Invs : Handler(i)

SpecSerial == InitLive /\ [][NextSerial]_vars /\ Fairness

TypeOK ==
  /\ now \in Times
  /\ _enabled \in BOOLEAN
  /\ _delay \in DelayValues
  /\ _mediaservers \in MediaServerChoices
  /\ \A i \in Invs : inv[i].pc \in {"idle", "check", "touch", "write", "sleep",
                                    "sleeping", "build", "loop", "return", "raised"}

\* ----------------------------------------------------------- vocabulary
Range(q) == {q[k] : k \in 1..Len(q)}

\* the refresh calls a service received from invocation i
CallsTo(i, s) == inv[i].items[s] + inv[i].root[s]
\* invocation i has made a dispatch call
Dispatched(i) == \E s \in Registry : CallsTo(i, s) > 0
\* the services the loop of lines 237-244 has been through
Visited(i) == inv[i].resolved \ Range(inv[i].todo)
\* service s received from invocation i exactly the call its methods select
CalledByCapability(i, s) ==
  /\ inv[i].items[s] = (IF caps[s] \in {"items", "both"} THEN 1 ELSE 0)
  /\ inv[i].root[s] = (IF caps[s] = "root" THEN 1 ELSE 0)
\* invocation i has done nothing but return: no lock step, no sleep, no call
Untouched(i) ==
  /\ inv[i].arrive = -1 /\ inv[i].aborted = Absent /\ ~inv[i].failed
  /\ inv[i].run_time = -1 /\ inv[i].due = -1
  /\ inv[i].sleepEnd = -1 /\ inv[i].sleepFor = -1
  /\ inv[i].gate = {} /\ inv[i].resolved = {} /\ ~Dispatched(i) /\ inv[i].err = "no"
\* invocation j returned at line 211 on the timestamp written by invocation i
Coalesced(j, i) == inv[j].aborted.k = "ts" /\ inv[j].aborted.w = i
\* the step of invocation i from position a to position b
Step(i, a, b) == inv[i].pc = a /\ inv'[i].pc = b

\* ------------------------------------------------------------------- C1
\* C1 (as claimed): of two invocations for the same path that reach the lock
\* step within one delay window, with no lock operation failing, at most one
\* dispatches.
C1Claim ==
  \A i, j \in Invs :
    ( /\ i # j
      /\ inv[i].arrive # -1 /\ inv[j].arrive # -1
      /\ inv[i].ev.ti = inv[j].ev.ti
      /\ inv[i].arrive <= inv[j].arrive
      /\ inv[j].arrive < inv[i].arrive + Float(inv[i].seenDelay)
      /\ ~inv[i].failed /\ ~inv[j].failed )
    => ~(Dispatched(i) /\ Dispatched(j))

\* ------------------------------------------------------------------- C2
\* C2 (as claimed): the refresh into which an event was coalesced is
\* dispatched no earlier than that event's arrival plus the delay.
C2Claim ==
  \A i, j \in Invs :
    (Coalesced(j, i) /\ Dispatched(i))
    => now >= inv[j].arrive + Float(inv[j].seenDelay)

\* C2 (amended): the refresh into which an event was coalesced is dispatched
\* no earlier than the timestamp the coalesced event read, which is at least
\* the writer's arrival plus the delay and later than the coalesced event's
\* arrival.
C2Amended ==
  \A i, j \in Invs :
    (Coalesced(j, i) /\ Dispatched(i))
    => /\ now >= inv[j].aborted.v
       /\ inv[j].aborted.v >= inv[i].arrive + Float(inv[i].seenDelay)
       /\ inv[j].aborted.v > inv[j].arrive

C2Witness ==
  \E i, j \in Invs : Coalesced(j, i) /\ Dispatched(i) /\ inv[i].pc = "return"

\* ------------------------------------------------------------------- C3
\* C3: an invocation that reads a lock whose timestamp is greater than the
\* current time returns at once: the step changes no lock file, and the
\* invocation never sleeps, never writes the lock and makes no call.
C3Returned ==
  \A j \in Invs :
    inv[j].aborted.k = "ts"
    => /\ inv[j].pc = "return"
       /\ ~Dispatched(j) /\ inv[j].resolved = {}
       /\ inv[j].sleepFor = -1 /\ inv[j].sleepEnd = -1
       /\ inv[j].run_time = -1 /\ inv[j].due = -1

C3Step ==
  \A j \in Invs :
    ( /\ inv[j].pc = "check" /\ inv'[j].pc # "check" /\ ~inv'[j].failed
      /\ lock[inv[j].ev.ti].k = "ts"
      /\ lock[inv[j].ev.ti].v > now )
    => /\ inv'[j].pc = "return"
       /\ inv'[j].aborted = lock[inv[j].ev.ti]
       /\ lock' = lock

C3Thm == []C3Returned /\ [][C3Step]_vars

C3Witness ==
  \E i, j \in Invs : i # j /\ Coalesced(j, i) /\ lock[inv[j].ev.ti] = inv[j].aborted

\* ------------------------------------------------------------------- C4
\* C4: an invocation with delay D > 0 that finds no lock, an empty one or one
\* whose timestamp is not in the future goes on to write now + D into the
\* lock file, and (the delay still being D when line 224 reads it) makes no
\* dispatch call before D has elapsed since that write.
C4Dispatch ==
  \A i \in Invs :
    ( /\ inv[i].due # -1
      /\ Float(inv[i].seenDelay) > 0
      /\ inv[i].sleepFor = Float(inv[i].seenDelay)
      /\ Dispatched(i) )
    => now >= inv[i].due

C4Step ==
  \A i \in Invs :
    LET c == lock[inv[i].ev.ti]
    IN /\ ( /\ inv[i].pc = "check" /\ inv'[i].pc # "check" /\ ~inv'[i].failed
            /\ (c.k \in {"absent", "empty"} \/ (c.k = "ts" /\ c.v <= now)) )
          => inv'[i].pc = "touch"
       /\ Step(i, "touch", "write")
          => inv'[i].run_time = now + Float(inv[i].seenDelay)
       /\ (Step(i, "write", "sleep") /\ ~inv'[i].failed)
          => /\ lock'[inv[i].ev.ti].k = "ts"
             /\ FloatOfContent(lock'[inv[i].ev.ti]) = inv[i].run_time
             /\ inv'[i].due = now + Float(inv[i].seenDelay)

C4Thm == []C4Dispatch /\ [][C4Step]_vars

C4Witness ==
  \E i \in Invs :
    /\ inv[i].due # -1 /\ Float(inv[i].seenDelay) > 0
    /\ inv[i].sleepFor = Float(inv[i].seenDelay)
    /\ inv[i].pc = "return" /\ Dispatched(i)

\* ------------------------------------------------------------------- C5
\* C5 (as claimed): when a service's refresh call raises, every other
\* resolved service that has a refresh method still receives its call.
C5Claim ==
  \A i \in Invs :
    inv[i].err = "service"
    => \A s \in inv[i].resolved : CallFor(caps[s]) # "none" => CallsTo(i, s) >= 1

\* ------------------------------------------------------------------- C6
\* C6: a failed lock operation (exists, open, read, parse, mkdir, touch,
\* write) is swallowed: the invocation goes on to line 223, sleeps
\* float(self._delay), resolves the active services and calls each of them
\* as an invocation whose lock step succeeded does.
C6Failed ==
  \A i \in Invs :
    inv[i].failed
    => /\ inv[i].aborted = Absent
       /\ inv[i].pc \in {"sleep", "sleeping", "build", "loop", "return", "raised"}
       /\ inv[i].err # "lock"
       /\ inv[i].pc \in {"sleeping", "build", "loop", "return", "raised"}
          => inv[i].sleepFor # -1
       /\ inv[i].pc \in {"loop", "return"}
          => /\ inv[i].resolved # {}
             /\ \A s \in Visited(i) : CalledByCapability(i, s)
       /\ inv[i].pc = "return" => Visited(i) = inv[i].resolved

C6Step ==
  \A i \in Invs :
    /\ (~inv[i].failed /\ inv'[i].failed) => inv'[i].pc = "sleep"
    /\ (inv[i].failed /\ Step(i, "sleep", "sleeping"))
       => /\ inv'[i].sleepFor = Float(_delay)
          /\ inv'[i].sleepEnd = now + Float(_delay)
    /\ (inv[i].failed /\ Step(i, "sleeping", "build")) => now >= inv[i].sleepEnd
    /\ (inv[i].failed /\ Step(i, "build", "loop"))
       => inv'[i].resolved = service_infos.services

C6Thm == []C6Failed /\ [][C6Step]_vars

C6Witness ==
  \E i \in Invs : inv[i].failed /\ inv[i].pc = "return" /\ Dispatched(i)

\* ------------------------------------------------------------------- C7
\* C7: an invocation that finds the plugin disabled at line 176 returns at
\* once, whatever its payload: it changes no lock file, never sleeps and
\* makes no call.
C7Returned ==
  \A i \in Invs :
    (inv[i].pc # "idle" /\ ~inv[i].sawEnabled) => (inv[i].pc = "return" /\ Untouched(i))

C7Step ==
  \A i \in Invs :
    (inv[i].pc = "idle" /\ inv'[i].pc # "idle" /\ ~_enabled)
    => (inv'[i].pc = "return" /\ lock' = lock)

C7Thm == []C7Returned /\ [][C7Step]_vars

C7Witness ==
  \E i \in Invs :
    /\ inv[i].pc = "return" /\ ~inv[i].sawEnabled
    /\ inv[i].ev.data /\ inv[i].ev.ti \in Paths /\ inv[i].ev.mi
    /\ ~_enabled /\ ~service_infos.none /\ Truthy(_delay)

\* ------------------------------------------------------------------- C8
\* C8: an invocation whose payload has no transferinfo, no target_diritem or
\* an empty path returns at once: it changes no lock file, never sleeps and
\* makes no call.
C8Returned ==
  \A i \in Invs :
    (inv[i].pc # "idle" /\ inv[i].ev.ti \notin Paths)
    => (inv[i].pc = "return" /\ Untouched(i))

C8Step ==
  \A i \in Invs :
    (inv[i].pc = "idle" /\ inv'[i].pc # "idle" /\ inv'[i].ev.ti \notin Paths)
    => (inv'[i].pc = "return" /\ lock' = lock)

C8Thm == []C8Returned /\ [][C8Step]_vars

C8Witness ==
  \E i \in Invs :
    /\ inv[i].pc = "return" /\ inv[i].sawEnabled
    /\ inv[i].ev.data /\ inv[i].ev.ti \notin Paths /\ inv[i].ev.mi
    /\ _enabled /\ ~service_infos.none /\ Truthy(_delay)

\* ------------------------------------------------------------------- C9
\* C9 (as claimed): an invocation that reads a delay of 0, as the number 0
\* or as the string "0", never reaches a lock step and never sleeps.
C9Claim ==
  \A i \in Invs :
    (inv[i].pc # "idle" /\ Float(inv[i].seenDelay) = 0)
    => /\ inv[i].pc \notin {"check", "touch", "write", "sleep", "sleeping"}
       /\ inv[i].aborted = Absent /\ ~inv[i].failed
       /\ inv[i].due = -1 /\ inv[i].sleepFor = -1

\* ------------------------------------------------------------------ C10
\* C10: a service receives at most one call from an invocation, and only
\* if it was resolved at line 237; the call is the item-scoped one when the
\* instance has refresh_library_by_items, the whole-library one when it has
\* only refresh_root_library, and none when it has neither; every service
\* the loop has been through has received exactly that.
C10Thm ==
  \A i \in Invs : \A s \in Registry :
    /\ CallsTo(i, s) <= 1
    /\ CallsTo(i, s) = 1 => s \in Visited(i)
    /\ inv[i].items[s] = 1 => caps[s] \in {"items", "both"}
    /\ inv[i].root[s] = 1 => caps[s] = "root"
    /\ s \in Visited(i) => CalledByCapability(i, s)
    /\ inv[i].pc = "return" => Visited(i) = inv[i].resolved

C10Witness ==
  \E i \in Invs :
    /\ inv[i].pc = "return" /\ inv[i].resolved = Registry
    /\ \E s, t \in Registry : inv[i].items[s] = 1 /\ caps[s] = "both" /\ inv[i].root[t] = 1

\* ------------------------------------------------------------------ C11
\* C11: service_infos is exactly the set of the services the registry
\* returns for the configured names that report not inactive; it is None
\* when no name is configured, when the registry returns nothing, or when
\* every returned service is inactive; an inactive service is never in it.
C11Thm ==
  LET returned == {s \in Registry : s \in _mediaservers}
      active == {s \in returned : ~inactive[s]}
  IN /\ service_infos.none <=> (_mediaservers = {} \/ returned = {} \/ active = {})
     /\ ~service_infos.none => service_infos.services = active
     /\ \A s \in service_infos.services : ~inactive[s]
     /\ \A i \in Invs : inv[i].pc = "loop" /\ inv[i].resolved = service_infos.services
                          => Range(inv[i].todo) \subseteq active

C11Witness ==
  /\ ~service_infos.none
  /\ \E s \in get_services(_mediaservers) : inactive[s]
  /\ \E i \in Invs : inv[i].pc = "loop" /\ inv[i].resolved = service_infos.services

\* ------------------------------------------------------------------ C12
\* C12 (as claimed): an invocation whose payload lacks mediainfo, or
\* transferinfo with its target path, writes no lock file, does not wait,
\* makes no dispatch call and raises no error.
C12Claim ==
  \A i \in Invs :
    (inv[i].pc # "idle" /\ (~inv[i].ev.mi \/ inv[i].ev.ti \notin Paths))
    => /\ inv[i].pc \notin {"touch", "write", "sleeping", "raised"}
       /\ inv[i].run_time = -1 /\ inv[i].due = -1
       /\ inv[i].sleepFor = -1
       /\ ~Dispatched(i)
       /\ inv[i].err = "no"

\* ------------------------------------------------------------------ C13
\* C13 (as claimed): no invocation ends by raising an error to the host,
\* also when the configured services become inactive or unresolvable
\* between the gate of line 184 and the loop of line 237.  (Stated for the
\* invocations whose payload has mediainfo and whose services do not
\* raise.)
C13Claim ==
  \A i \in Invs :
    (inv[i].ev.mi /\ inv[i].err # "service") => inv[i].pc # "raised"

\* ------------------------------------------------------------------ C14
\* C14 (as claimed): when an invocation with a delay > 0 leaves the lock
\* step without returning on a future lock, the lock file of its path holds
\* the run_time it computed, also when the file was corrupt.  (Stated for
\* the steps on which no file operation fails but the parse of a corrupt
\* content.)
C14Step ==
  \A i \in Invs :
    ( /\ inv[i].pc \in {"check", "touch", "write"}
      /\ inv'[i].pc = "sleep"
      /\ Float(inv[i].seenDelay) > 0
      /\ inv'[i].failed => lock[inv[i].ev.ti].k = "corrupt" )
    => /\ lock'[inv[i].ev.ti].k = "ts"
       /\ lock'[inv[i].ev.ti].w = i
       /\ inv[i].pc = "write" => FloatOfContent(lock'[inv[i].ev.ti]) = inv[i].run_time

C14Claim == [][C14Step]_vars

\* ------------------------------------------------------------------ C15
\* C15 (as claimed): under any interleaving of invocations for one path,
\* the timestamp stored in its lock file never goes back to an older run
\* time: a write that finds a timestamp in the file stores one that is at
\* least as large.
C15Step ==
  \A i \in Invs :
    (Step(i, "write", "sleep") /\ ~inv'[i].failed /\ lock[inv[i].ev.ti].k = "ts")
    => /\ lock'[inv[i].ev.ti].k = "ts"
       /\ FloatOfContent(lock'[inv[i].ev.ti]) >= FloatOfContent(lock[inv[i].ev.ti])

C15Claim == [][C15Step]_vars

\* ------------------------------------------------------------------ C19
\* C19: the services are resolved at the gate of line 184 and again at line
\* 237; the loop iterates the set that is active when line 237 runs, whatever
\* the gate's set was, and only services of that set receive a call: every
\* one the loop has been through, by its refresh method.
C19Called ==
  \A i \in Invs :
    /\ \A s \in Registry : CallsTo(i, s) > 0 => s \in inv[i].resolved
    /\ \A s \in Visited(i) : CalledByCapability(i, s)
    /\ inv[i].pc = "return" => Visited(i) = inv[i].resolved

C19Step ==
  \A i \in Invs :
    /\ (inv[i].pc = "idle" /\ inv'[i].pc \notin {"idle", "return"})
       => inv'[i].gate = {s \in get_services(_mediaservers) : ~inactive[s]}
    /\ Step(i, "build", "loop")
       => inv'[i].resolved = {s \in get_services(_mediaservers) : ~inactive[s]}
    /\ inv[i].pc \in {"loop", "return", "raised"} => inv'[i].resolved = inv[i].resolved

C19Thm == []C19Called /\ [][C19Step]_vars

C19Witness ==
  \E i \in Invs : \E s, t \in Registry :
    /\ inv[i].pc = "return" /\ inv[i].sleepFor > 0
    /\ s \in inv[i].gate /\ s \notin inv[i].resolved /\ CallsTo(i, s) = 0
    /\ t \notin inv[i].gate /\ t \in inv[i].resolved /\ CallsTo(i, t) = 1

\* ------------------------------------------------------------------ C20
\* C20: a step of an invocation for path P leaves the lock file of every
\* other path unchanged, and the invocation returns at line 211 only on a
\* future timestamp in P's own lock file: an unexpired lock of another
\* path never makes it return.
C20Step ==
  \A i \in Invs :
    inv'[i] # inv[i]
    => /\ \A q \in Paths \ {inv'[i].ev.ti} : lock'[q] = lock[q]
       /\ Step(i, "check", "return")
          => /\ FutureLock(lock[inv[i].ev.ti])
             /\ inv'[i].aborted = lock[inv[i].ev.ti]
       /\ ( /\ inv[i].pc = "check" /\ inv'[i].pc # "check"
            /\ ~FutureLock(lock[inv[i].ev.ti]) )
          => inv'[i].pc = "touch"

C20Aborted ==
  \A i \in Invs :
    inv[i].aborted.k = "ts"
    => \/ inv[i].aborted.w = 0
       \/ inv[inv[i].aborted.w].ev.ti = inv[i].ev.ti

C20Thm == []C20Aborted /\ [][C20Step]_vars

\* an invocation for one path wrote its lock while the lock its peer wrote
\* for the other path was unexpired, and both locks stand
C20Witness ==
  \E i, j \in Invs :
    /\ inv[i].ev.ti \in Paths /\ inv[j].ev.ti \in Paths
    /\ inv[i].ev.ti # inv[j].ev.ti
    /\ lock[inv[j].ev.ti] = StrOfTime(MaxDelay, j) /\ inv[j].due = MaxDelay
    /\ inv[i].arrive = 1 /\ inv[i].aborted = Absent
    /\ lock[inv[i].ev.ti] = StrOfTime(1 + MaxDelay, i)

\* ------------------------------------------------------------------ C16
\* C16 (as claimed): an invocation that has started waiting finishes its
\* wait and runs its dispatch step to the end, whatever happens during the
\* wait; so it never ends at line 237 with an error.  (Stated for the
\* invocations whose payload has mediainfo and whose services do not
\* raise.)
C16Claim ==
  \A i \in Invs :
    (inv[i].sleepFor > 0 /\ inv[i].ev.mi /\ inv[i].err # "service")
    => /\ inv[i].pc # "raised"
       /\ inv[i].pc = "return" => Visited(i) = inv[i].resolved /\ inv[i].resolved # {}

\* ------------------------------------------------------------------ C17
\* C17: when the host runs the handlers one at a time under a fixed delay
\* D > 0, an invocation that finishes waiting does so at or past the
\* run_time it wrote, no invocation ever returns on an unexpired lock, and
\* every invocation waits D and dispatches.
C17Never ==
  \A i \in Invs :
    /\ inv[i].aborted = Absent
    /\ inv[i].pc = "return"
       => /\ Dispatched(i) /\ Visited(i) = inv[i].resolved
          /\ inv[i].sleepFor = MaxDelay
          /\ now >= inv[i].arrive + MaxDelay

C17Step ==
  \A i \in Invs :
    /\ Step(i, "sleeping", "build")
       => /\ lock[inv[i].ev.ti] = StrOfTime(FloatOfContent(lock[inv[i].ev.ti]), i)
          /\ now >= FloatOfContent(lock[inv[i].ev.ti])
    /\ (inv[i].pc = "check" /\ inv'[i].pc # "check") => inv'[i].pc = "touch"

C17Thm ==
  /\ []C17Never
  /\ [][C17Step]_vars
  /\ \A i \in Invs : (inv[i].pc # "idle") ~> (inv[i].pc = "return" /\ Dispatched(i))

\* the second event for a path was handled just when the lock the first
\* had written expired, and has dispatched as well
C17Witness ==
  \E i, j \in Invs :
    /\ i # j /\ inv[i].ev.ti = inv[j].ev.ti
    /\ inv[i].pc = "return" /\ inv[j].pc = "return"
    /\ Dispatched(i) /\ Dispatched(j)
    /\ inv[j].arrive = inv[i].arrive + MaxDelay

\* ------------------------------------------------------------------ C18
\* C18: with the configuration fixed, the lock files written by the handler
\* only and no error, whenever an invocation returns on a future timestamp
\* T of its path, the invocation that wrote T makes its dispatch calls, all
\* of them, and not before T, hence after the returned event arrived.
C18Covered ==
  \A i, j \in Invs :
    Coalesced(j, i)
    => /\ inv[i].ev.ti = inv[j].ev.ti
       /\ inv[j].aborted.v > inv[j].arrive
       /\ inv[i].pc \in {"loop", "return"} => now >= inv[j].aborted.v
       /\ Dispatched(i) => inv[i].pc \in {"loop", "return"}

C18Thm ==
  /\ []C18Covered
  /\ \A i, j \in Invs :
       Coalesced(j, i)
       ~> (inv[i].pc = "return" /\ Dispatched(i) /\ Visited(i) = inv[i].resolved)

C18Witness ==
  \E i, j \in Invs :
    /\ Coalesced(j, i) /\ inv[j].arrive > inv[i].arrive
    /\ inv[i].pc = "return" /\ Dispatched(i) /\ Visited(i) = inv[i].resolved
    /\ now = inv[j].aborted.v

====
